---- MODULE Spec2Model ----
(***************************************************************************)
(* Model of blackjack_game/__init__.py: PlayerHand, PlayerGame and the     *)
(* command handlers of BlackjackGame.                                      *)
(*                                                                         *)
(* Amounts of score are kept in half points (score2 = 2 * score, a bet of  *)
(* 1.0 settles at -1, -2, +2 or +3), so that -0.5*bet and +1.5*bet are     *)
(* integers.  The messages told to the player are not modelled: a command  *)
(* that is refused leaves every variable as it is.                         *)
(*                                                                         *)
(* A handler runs to completion; pc[p] is its position:                    *)
(*   "idle"        no handler runs for p, the next command may arrive      *)
(*   "dealer_play" at the head of the while loop of dealer_play (line 194) *)
(*   "start_game"  after settle_round, at the call of start_game that ends *)
(*                 next_action (line 464)                                  *)
(*                                                                         *)
(* draw_card is a nondeterministic choice.  The specifications restrict    *)
(* the commands and the ranks drawn in different ways: Spec (sessions of   *)
(* several rounds, no split), RoundSpec (one round with hits, doubles and  *)
(* a split), SplitSpec (one round of splits), DealerSpec / FairDealerSpec  *)
(* (the dealer's play), TwoSpec (two players) and ConcSpec (two handlers   *)
(* that run at the same time for one player).                              *)
(***************************************************************************)
EXTENDS Integers, Sequences, FiniteSets, TLC

\* ------------------------------------------------------- cards and values
CARDS == {"2", "3", "4", "5", "6", "7", "8", "9", "10", "J", "Q", "K", "A"}

CARD_VALUES == [c \in CARDS |->
    CASE c = "2" -> 2 [] c = "3" -> 3 [] c = "4" -> 4 [] c = "5" -> 5
      [] c = "6" -> 6 [] c = "7" -> 7 [] c = "8" -> 8 [] c = "9" -> 9
      [] c = "10" -> 10 [] c = "J" -> 10 [] c = "Q" -> 10 [] c = "K" -> 10
      [] c = "A" -> 11]

\* ---------------------------------------------------------------- bounds
\* players that send commands
Players == {"p1"}

\* Spec: whole sessions (rounds dealt one after the other) of start, stop,
\* hit, stand, double-down and surrender commands.
\* Ranks that draw_card returns, a subset of CARDS
DrawSet == {"6", "10", "A"}
\* a command that draws player cards (hit, double-down: 1, split: 2) is
\* issued only if the player's hands then hold at most this many cards
MaxCards == 3
\* next_action deals the next round only while |score2| is below this
MaxScore2 == 2

\* RoundSpec: one round played in depth, up to its settlement
RoundDrawSet == {"6", "10", "A"}
\* ranks of the dealer's cards
RoundDealerSet == {"6", "10"}
RoundMaxCards == 6

\* SplitSpec: one round of start, stop, split, stand and surrender
\* commands, with as many splits as the code accepts
SplitDrawSet == {"10", "K", "A"}
SplitDealerSet == {"6", "10"}
SplitMaxCards == 12

\* DealerSpec: one round in which the player stands or surrenders on 10 10
\* and the dealer's cards are drawn from the whole deck
DealerPlayerSet == {"10"}
DealerDrawSet == {"2", "3", "4", "6", "7", "10", "K", "A"}

\* TwoSpec: two players whose commands interleave
TwoPlayers == {"p1", "p2"}

\* Ranks of the players' cards and of the dealers' cards in TwoSpec
TwoDrawSet == {"10"}

TwoDealerSet == {"6", "10"}

\* Most cards a player's hands hold together in TwoSpec
TwoMaxCards == 4

\* ConcSpec: two handlers that run at the same time for one player
Handlers == {"h1", "h2"}

ConcPlayer == "p1"

\* Ranks of the player's cards and of the dealer's cards in ConcSpec
ConcDrawSet == {"10"}

ConcDealerSet == {"6", "10"}

\* Most cards the player's hands hold together in ConcSpec
ConcMaxCards == 4

\* AutoStart of ConcSpec deals a round while |2 * score| is below this
ConcMaxScore2 == 2

\* the for loop of calculate_value: every ace counted as 11
RECURSIVE RawTotal(_)
RawTotal(cards) ==
    IF cards = <<>> THEN 0
    ELSE CARD_VALUES[Head(cards)] + RawTotal(Tail(cards))

RECURSIVE AceCount(_)
AceCount(cards) ==
    IF cards = <<>> THEN 0
    ELSE (IF Head(cards) = "A" THEN 1 ELSE 0) + AceCount(Tail(cards))

\* the while loop: total -= 10 while total > 21 and an ace is left
RECURSIVE ReduceAces(_, _)
ReduceAces(total, ace_count) ==
    IF total > 21 /\ ace_count > 0
    THEN ReduceAces(total - 10, ace_count - 1)
    ELSE total

calculate_value(cards) == ReduceAces(RawTotal(cards), AceCount(cards))

\* check_bust: the value stored in hand.busted
check_bust(cards) == ReduceAces(RawTotal(cards), AceCount(cards)) > 21

\* ------------------------------------------------------------ PlayerHand
PlayerHand(cards, bet, is_split) ==
    [cards |-> cards, bet |-> bet, stand |-> FALSE, busted |-> FALSE,
     doubled |-> FALSE, surrendered |-> FALSE, is_split |-> is_split]

add_card(hand, card) ==
    [hand EXCEPT !.cards = Append(hand.cards, card),
                 !.busted = check_bust(Append(hand.cards, card))]

is_blackjack(hand) ==
    Len(hand.cards) = 2 /\ ~hand.is_split /\ calculate_value(hand.cards) = 21

is_five_dragons(hand) == Len(hand.cards) >= 5 /\ ~hand.busted

\* ----------------------------------------------------------------- state
VARIABLES
    player_games,        \* the keys of BlackjackGame.player_games
    hands,               \* PlayerGame.hands, per player
    dealer_hand,         \* PlayerGame.dealer_hand
    current_hand_index,  \* PlayerGame.current_hand_index
    score2,              \* 2 * PlayerGame.score
    in_game,             \* PlayerGame.in_game
    dealer_value,        \* PlayerGame.dealer_value (cache)
    dealer_busted,       \* PlayerGame.dealer_busted (cache)
    pc                   \* position of the handler running for the player

vars == <<player_games, hands, dealer_hand, current_hand_index, score2,
          in_game, dealer_value, dealer_busted, pc>>

gameVars == <<hands, dealer_hand, current_hand_index, score2, in_game,
              dealer_value, dealer_busted>>

Abs(n) == IF n < 0 THEN -n ELSE n

\* the number of cards in the player's hands
RECURSIVE PlayerCards(_)
PlayerCards(hs) ==
    IF hs = <<>> THEN 0
    ELSE Len(Head(hs).cards) + PlayerCards(Tail(hs))

\* PlayerGame.__init__: an entry of player_games that does not exist yet
\* is created with these fields by get_player_game
Init ==
    /\ player_games = {}
    /\ hands = [p \in Players |-> <<>>]
    /\ dealer_hand = [p \in Players |-> <<>>]
    /\ current_hand_index = [p \in Players |-> 0]
    /\ score2 = [p \in Players |-> 0]
    /\ in_game = [p \in Players |-> FALSE]
    /\ dealer_value = [p \in Players |-> 0]
    /\ dealer_busted = [p \in Players |-> FALSE]
    /\ pc = [p \in Players |-> "idle"]

\* ------------------------------------------------------------ PlayerGame
\* hands[current_hand_index]; sequences are 1-based
get_current_hand(p) == hands[p][current_hand_index[p] + 1]

\* start_new_round without the automatic stand of a blackjack
start_new_round_no_stand(c1, c2) ==
    add_card(add_card(PlayerHand(<<>>, 1, FALSE), c1), c2)

\* the hand dealt by start_new_round from the player's two cards
start_new_round(c1, c2) ==
    LET h == add_card(add_card(PlayerHand(<<>>, 1, FALSE), c1), c2)
    IN  IF is_blackjack(h) THEN [h EXCEPT !.stand = TRUE] ELSE h

\* hit without the automatic stand of a five-card hand
hit_no_five_stand(hand, card) ==
    IF ~hand.stand /\ ~hand.busted /\ ~hand.surrendered
    THEN add_card(hand, card)
    ELSE hand

hit(hand, card) ==
    IF ~hand.stand /\ ~hand.busted /\ ~hand.surrendered
    THEN LET h == add_card(hand, card)
         IN  IF Len(h.cards) >= 5 /\ ~h.busted
             THEN [h EXCEPT !.stand = TRUE] ELSE h
    ELSE hand

stand(hand) ==
    IF ~hand.busted /\ ~hand.surrendered
    THEN [hand EXCEPT !.stand = TRUE] ELSE hand

\* the condition of double_down
can_double_down(hand) ==
    /\ ~hand.stand
    /\ ~hand.busted
    /\ ~hand.surrendered
    /\ ~hand.doubled
    /\ ~is_blackjack(hand)

\* double_down that leaves the hand open
double_down_no_stand(hand, card) ==
    add_card([hand EXCEPT !.bet = @ * 2, !.doubled = TRUE], card)

\* double_down that marks the hand doubled and leaves the bet
double_down_keeps_bet(hand, card) ==
    [add_card([hand EXCEPT !.doubled = TRUE], card) EXCEPT !.stand = TRUE]

\* the assignments of double_down
double_down(hand, card) ==
    [add_card([hand EXCEPT !.bet = @ * 2, !.doubled = TRUE], card)
        EXCEPT !.stand = TRUE]

\* the condition of split with a cap of 6 hands
can_split_cap6(hs, idx) ==
    /\ Len(hs[idx + 1].cards) = 2
    /\ Len(hs) < 6
    /\ CARD_VALUES[hs[idx + 1].cards[1]] = CARD_VALUES[hs[idx + 1].cards[2]]

\* the condition of split
can_split(hs, idx) ==
    /\ Len(hs[idx + 1].cards) = 2
    /\ Len(hs) < 4
    /\ CARD_VALUES[hs[idx + 1].cards[1]] = CARD_VALUES[hs[idx + 1].cards[2]]

\* split that seeds both new hands with the first card
split_same_card(hs, idx, n1, n2) ==
    LET hand == hs[idx + 1]
        new_hand1 == add_card(PlayerHand(<<hand.cards[1]>>, hand.bet, TRUE), n1)
        new_hand2 == add_card(PlayerHand(<<hand.cards[1]>>, hand.bet, TRUE), n2)
    IN  Append([hs EXCEPT ![idx + 1] = new_hand1], new_hand2)

\* the hand list after a split of the hand at idx (0-based)
split(hs, idx, n1, n2) ==
    LET hand == hs[idx + 1]
        new_hand1 == add_card(PlayerHand(<<hand.cards[1]>>, hand.bet, TRUE), n1)
        new_hand2 == add_card(PlayerHand(<<hand.cards[2]>>, hand.bet, TRUE), n2)
    IN  Append([hs EXCEPT ![idx + 1] = new_hand1], new_hand2)

can_surrender(hand) ==
    Len(hand.cards) = 2 /\ ~hand.stand /\ ~hand.busted

\* a surrender that leaves the stand flag alone
surrender_no_stand(hand) == [hand EXCEPT !.surrendered = TRUE]

\* the assignments of surrender
surrender(hand) == [hand EXCEPT !.surrendered = TRUE, !.stand = TRUE]

calculate_dealer_value(cards) == ReduceAces(RawTotal(cards), AceCount(cards))

\* a dealer that still draws at 17
dealer_draws_at_17(p) == ~dealer_busted[p] /\ dealer_value[p] < 18

\* the while condition of dealer_play
dealer_draws(p) == ~dealer_busted[p] /\ dealer_value[p] < 17

\* settlement that looks at the dealer's bust before the player's
hand_score2_dealer_first(hand, dv, db) ==
    IF hand.surrendered THEN -hand.bet
    ELSE IF db THEN 2 * hand.bet
    ELSE IF hand.busted THEN -2 * hand.bet
    ELSE IF is_five_dragons(hand) /\ ~is_blackjack(hand) THEN 2 * hand.bet
    ELSE IF is_blackjack(hand) THEN 3 * hand.bet
    ELSE IF calculate_value(hand.cards) > dv THEN 2 * hand.bet
    ELSE IF calculate_value(hand.cards) < dv THEN -2 * hand.bet
    ELSE 0

\* contribution of one hand to 2 * round_score
hand_score2(hand, dv, db) ==
    IF hand.surrendered THEN -hand.bet
    ELSE IF hand.busted THEN -2 * hand.bet
    ELSE IF is_five_dragons(hand) /\ ~is_blackjack(hand) THEN 2 * hand.bet
    ELSE IF is_blackjack(hand) THEN 3 * hand.bet
    ELSE IF db THEN 2 * hand.bet
    ELSE IF calculate_value(hand.cards) > dv THEN 2 * hand.bet
    ELSE IF calculate_value(hand.cards) < dv THEN -2 * hand.bet
    ELSE 0

\* 2 * the value settle_round returns
RECURSIVE settle_round(_, _, _)
settle_round(hs, dv, db) ==
    IF hs = <<>> THEN 0
    ELSE hand_score2(Head(hs), dv, db) + settle_round(Tail(hs), dv, db)

\* --------------------------------------------------------- BlackjackGame
\* a next_action whose next_hand steps over a hand
next_action_skips(p, idx, hs, dh) ==
    /\ current_hand_index' = [current_hand_index EXCEPT ![p] = idx + 2]
    /\ IF idx + 2 < Len(hs)
       THEN /\ pc' = [pc EXCEPT ![p] = "idle"]
            /\ UNCHANGED <<dealer_value, dealer_busted>>
       ELSE /\ pc' = [pc EXCEPT ![p] = "dealer_play"]
            /\ dealer_value' =
                 [dealer_value EXCEPT ![p] = calculate_dealer_value(dh)]
            /\ dealer_busted' =
                 [dealer_busted EXCEPT ![p] = calculate_dealer_value(dh) > 21]

\* next_action up to the first calculate_dealer_value of dealer_play:
\* idx, hs and dh are the cursor, hands and dealer hand it finds
next_action(p, idx, hs, dh) ==
    /\ current_hand_index' = [current_hand_index EXCEPT ![p] = idx + 1]
    /\ IF idx + 1 < Len(hs)
       THEN /\ pc' = [pc EXCEPT ![p] = "idle"]
            /\ UNCHANGED <<dealer_value, dealer_busted>>
       ELSE /\ pc' = [pc EXCEPT ![p] = "dealer_play"]
            /\ dealer_value' =
                 [dealer_value EXCEPT ![p] = calculate_dealer_value(dh)]
            /\ dealer_busted' =
                 [dealer_busted EXCEPT ![p] = calculate_dealer_value(dh) > 21]

\* start_game without the check of in_game
start_game_no_check(p, D, DD) ==
    /\ player_games' = player_games \cup {p}
    /\ \E c1 \in D, d1 \in DD, c2 \in D, d2 \in DD :
         LET h == start_new_round(c1, c2) IN
         /\ hands' = [hands EXCEPT ![p] = <<h>>]
         /\ dealer_hand' = [dealer_hand EXCEPT ![p] = <<d1, d2>>]
         /\ in_game' = [in_game EXCEPT ![p] = TRUE]
         /\ score2' = score2
         /\ IF is_blackjack(h)
            THEN next_action(p, 0, <<h>>, <<d1, d2>>)
            ELSE /\ current_hand_index' =
                      [current_hand_index EXCEPT ![p] = 0]
                 /\ pc' = [pc EXCEPT ![p] = "idle"]
                 /\ UNCHANGED <<dealer_value, dealer_busted>>

\* start_game, called by the start command and by next_action;
\* D and DD are the sets of ranks the player's and the dealer's cards
\* are drawn from
start_game(p, D, DD) ==
    /\ player_games' = player_games \cup {p}
    /\ IF in_game[p]
       THEN /\ pc' = [pc EXCEPT ![p] = "idle"]
            /\ UNCHANGED gameVars
       ELSE \E c1 \in D, d1 \in DD, c2 \in D, d2 \in DD :
              LET h == start_new_round(c1, c2) IN
              /\ hands' = [hands EXCEPT ![p] = <<h>>]
              /\ dealer_hand' = [dealer_hand EXCEPT ![p] = <<d1, d2>>]
              /\ in_game' = [in_game EXCEPT ![p] = TRUE]
              /\ score2' = score2
              /\ IF is_blackjack(h)
                 THEN next_action(p, 0, <<h>>, <<d1, d2>>)
                 ELSE /\ current_hand_index' =
                           [current_hand_index EXCEPT ![p] = 0]
                      /\ pc' = [pc EXCEPT ![p] = "idle"]
                      /\ UNCHANGED <<dealer_value, dealer_busted>>

\* !!21 start
StartGame(p, D, DD) ==
    /\ pc[p] = "idle"
    /\ start_game(p, D, DD)

\* the call of start_game at the end of next_action
AutoStart(p, D, DD, maxScore2) ==
    /\ pc[p] = "start_game"
    /\ Abs(score2[p]) < maxScore2
    /\ start_game(p, D, DD)

\* a stop that empties the whole registry
stop_game_clear(p) ==
    /\ pc[p] = "idle"
    /\ IF p \in player_games
       THEN /\ player_games' = {}
            /\ hands' = [q \in DOMAIN hands |-> <<>>]
            /\ dealer_hand' = [q \in DOMAIN hands |-> <<>>]
            /\ current_hand_index' = [q \in DOMAIN hands |-> 0]
            /\ score2' = [q \in DOMAIN hands |-> 0]
            /\ in_game' = [q \in DOMAIN hands |-> FALSE]
            /\ dealer_value' = [q \in DOMAIN hands |-> 0]
            /\ dealer_busted' = [q \in DOMAIN hands |-> FALSE]
       ELSE UNCHANGED <<player_games, gameVars>>
    /\ pc' = pc

\* !!21 stop
stop_game(p) ==
    /\ pc[p] = "idle"
    /\ IF p \in player_games
       THEN /\ player_games' = player_games \ {p}
            /\ hands' = [hands EXCEPT ![p] = <<>>]
            /\ dealer_hand' = [dealer_hand EXCEPT ![p] = <<>>]
            /\ current_hand_index' = [current_hand_index EXCEPT ![p] = 0]
            /\ score2' = [score2 EXCEPT ![p] = 0]
            /\ in_game' = [in_game EXCEPT ![p] = FALSE]
            /\ dealer_value' = [dealer_value EXCEPT ![p] = 0]
            /\ dealer_busted' = [dealer_busted EXCEPT ![p] = FALSE]
       ELSE UNCHANGED <<player_games, gameVars>>
    /\ pc' = pc

\* which of its two messages stop_game tells p
stop_reports(p) ==
    IF p \in player_games THEN "final_score" ELSE "no_active_game"

\* process_command for a player without a round in progress
no_game(p) == UNCHANGED <<gameVars, pc>>

\* a refusal that goes on to next_action all the same
refuse_advances(p, msg) ==
    /\ next_action(p, current_hand_index[p], hands[p], dealer_hand[p])
    /\ UNCHANGED <<hands, dealer_hand, score2, in_game>>

\* a branch of process_command that only tells the player a refusal
refuse(p, msg) == UNCHANGED <<gameVars, pc>>

\* !!21 h
Hit(p, D, maxCards) ==
    /\ pc[p] = "idle"
    /\ PlayerCards(hands[p]) + 1 <= maxCards
    /\ player_games' = player_games \cup {p}
    /\ IF ~in_game[p] THEN no_game(p)
       ELSE IF is_blackjack(get_current_hand(p))
            THEN refuse(p, "blackjack_no_hit")
       ELSE \E c \in D :
              LET h == hit(get_current_hand(p), c)
                  hs == [hands[p] EXCEPT ![current_hand_index[p] + 1] = h]
              IN  /\ hands' = [hands EXCEPT ![p] = hs]
                  /\ UNCHANGED <<dealer_hand, score2, in_game>>
                  /\ IF h.busted \/ h.stand
                     THEN next_action(p, current_hand_index[p], hs,
                                      dealer_hand[p])
                     ELSE UNCHANGED <<current_hand_index, dealer_value,
                                     dealer_busted, pc>>

\* !!21 s
Stand(p) ==
    /\ pc[p] = "idle"
    /\ player_games' = player_games \cup {p}
    /\ IF ~in_game[p] THEN no_game(p)
       ELSE LET hs == [hands[p] EXCEPT ![current_hand_index[p] + 1] =
                          stand(get_current_hand(p))]
            IN  /\ hands' = [hands EXCEPT ![p] = hs]
                /\ UNCHANGED <<dealer_hand, score2, in_game>>
                /\ next_action(p, current_hand_index[p], hs, dealer_hand[p])

\* !!21 d
DoubleDown(p, D, maxCards) ==
    /\ pc[p] = "idle"
    /\ PlayerCards(hands[p]) + 1 <= maxCards
    /\ player_games' = player_games \cup {p}
    /\ IF ~in_game[p] THEN no_game(p)
       ELSE IF is_blackjack(get_current_hand(p))
            THEN refuse(p, "blackjack_no_double")
       ELSE IF can_double_down(get_current_hand(p))
            THEN \E c \in D :
                   LET hs == [hands[p] EXCEPT ![current_hand_index[p] + 1] =
                                 double_down(get_current_hand(p), c)]
                   IN  /\ hands' = [hands EXCEPT ![p] = hs]
                       /\ UNCHANGED <<dealer_hand, score2, in_game>>
                       /\ next_action(p, current_hand_index[p], hs,
                                      dealer_hand[p])
       ELSE refuse(p, "cannot_double")

\* !!21 p
Split(p, D, maxCards) ==
    /\ pc[p] = "idle"
    /\ PlayerCards(hands[p]) + 2 <= maxCards
    /\ player_games' = player_games \cup {p}
    /\ IF ~in_game[p] THEN no_game(p)
       ELSE IF is_blackjack(get_current_hand(p))
            THEN refuse(p, "blackjack_no_split")
       ELSE IF can_split(hands[p], current_hand_index[p])
            THEN \E n1 \in D, n2 \in D :
                   /\ hands' = [hands EXCEPT ![p] =
                                   split(hands[p], current_hand_index[p], n1, n2)]
                   /\ UNCHANGED <<dealer_hand, current_hand_index, score2,
                                  in_game, dealer_value, dealer_busted, pc>>
       ELSE refuse(p, "cannot_split")

\* !!21 sur
Surrender(p) ==
    /\ pc[p] = "idle"
    /\ player_games' = player_games \cup {p}
    /\ IF ~in_game[p] THEN no_game(p)
       ELSE IF is_blackjack(get_current_hand(p))
            THEN refuse(p, "blackjack_no_surrender")
       ELSE IF can_surrender(get_current_hand(p))
            THEN LET hs == [hands[p] EXCEPT ![current_hand_index[p] + 1] =
                               surrender(get_current_hand(p))]
                 IN  /\ hands' = [hands EXCEPT ![p] = hs]
                     /\ UNCHANGED <<dealer_hand, score2, in_game>>
                     /\ next_action(p, current_hand_index[p], hs,
                                    dealer_hand[p])
       ELSE refuse(p, "cannot_surrender")

\* process_command with a command that is none of h, s, d, p, sur
Unknown(p) ==
    /\ pc[p] = "idle"
    /\ player_games' = player_games \cup {p}
    /\ IF ~in_game[p] THEN no_game(p)
       ELSE refuse(p, "unknown_command")

\* one pass of the while loop of dealer_play
DealerDraw(p, DD) ==
    /\ pc[p] = "dealer_play"
    /\ dealer_draws(p)
    /\ \E c \in DD :
         LET dh == Append(dealer_hand[p], c) IN
         /\ dealer_hand' = [dealer_hand EXCEPT ![p] = dh]
         /\ dealer_value' =
              [dealer_value EXCEPT ![p] = calculate_dealer_value(dh)]
         /\ dealer_busted' =
              [dealer_busted EXCEPT ![p] = calculate_dealer_value(dh) > 21]
    /\ UNCHANGED <<player_games, hands, current_hand_index, score2, in_game,
                   pc>>

\* a settlement after which next_action returns without start_game
SettleRound_returns(p) ==
    /\ pc[p] = "dealer_play"
    /\ ~dealer_draws(p)
    /\ score2' = [score2 EXCEPT ![p] =
                     @ + settle_round(hands[p], dealer_value[p],
                                      dealer_busted[p])]
    /\ in_game' = [in_game EXCEPT ![p] = FALSE]
    /\ pc' = [pc EXCEPT ![p] = "idle"]
    /\ UNCHANGED <<player_games, hands, dealer_hand, current_hand_index,
                   dealer_value, dealer_busted>>

\* a settlement that overwrites the score with the round's delta
SettleRound_overwrites(p) ==
    /\ pc[p] = "dealer_play"
    /\ ~dealer_draws(p)
    /\ score2' = [score2 EXCEPT ![p] =
                     settle_round(hands[p], dealer_value[p],
                                  dealer_busted[p])]
    /\ in_game' = [in_game EXCEPT ![p] = FALSE]
    /\ pc' = [pc EXCEPT ![p] = "start_game"]
    /\ UNCHANGED <<player_games, hands, dealer_hand, current_hand_index,
                   dealer_value, dealer_busted>>

\* the exit of the loop and the call of settle_round in next_action
SettleRound(p) ==
    /\ pc[p] = "dealer_play"
    /\ ~dealer_draws(p)
    /\ score2' = [score2 EXCEPT ![p] =
                     @ + settle_round(hands[p], dealer_value[p],
                                      dealer_busted[p])]
    /\ in_game' = [in_game EXCEPT ![p] = FALSE]
    /\ pc' = [pc EXCEPT ![p] = "start_game"]
    /\ UNCHANGED <<player_games, hands, dealer_hand, current_hand_index,
                   dealer_value, dealer_busted>>

\* -------------------------------------------------------- specifications
Next ==
    \E p \in Players :
        \/ StartGame(p, DrawSet, DrawSet)
        \/ stop_game(p)
        \/ Hit(p, DrawSet, MaxCards)
        \/ Stand(p)
        \/ DoubleDown(p, DrawSet, MaxCards)
        \/ Surrender(p)
        \/ DealerDraw(p, DrawSet)
        \/ SettleRound(p)
        \/ AutoStart(p, DrawSet, DrawSet, MaxScore2)

Spec == Init /\ [][Next]_vars

RoundNext ==
    \E p \in Players :
        \/ StartGame(p, RoundDrawSet, RoundDealerSet)
        \/ stop_game(p)
        \/ Hit(p, RoundDrawSet, RoundMaxCards)
        \/ Stand(p)
        \/ DoubleDown(p, RoundDrawSet, RoundMaxCards)
        \/ Split(p, RoundDrawSet, RoundMaxCards)
        \/ Surrender(p)
        \/ Unknown(p)
        \/ DealerDraw(p, RoundDealerSet)
        \/ SettleRound(p)

RoundSpec == Init /\ [][RoundNext]_vars

SplitNext ==
    \E p \in Players :
        \/ StartGame(p, SplitDrawSet, SplitDealerSet)
        \/ stop_game(p)
        \/ Stand(p)
        \/ Split(p, SplitDrawSet, SplitMaxCards)
        \/ Surrender(p)
        \/ DealerDraw(p, SplitDealerSet)
        \/ SettleRound(p)

SplitSpec == Init /\ [][SplitNext]_vars

DealerNext ==
    \E p \in Players :
        \/ StartGame(p, DealerPlayerSet, DealerDrawSet)
        \/ stop_game(p)
        \/ Stand(p)
        \/ Surrender(p)
        \/ DealerDraw(p, DealerDrawSet)
        \/ SettleRound(p)

DealerSpec == Init /\ [][DealerNext]_vars

\* a handler that has started runs to its end: the loop of dealer_play and
\* the settlement that follows are not suspended for ever
FairDealerSpec ==
    /\ DealerSpec
    /\ \A p \in Players :
         WF_vars(DealerDraw(p, DealerDrawSet) \/ SettleRound(p))

\* the plugin with no game registered, before two players send commands
TwoInit ==
    /\ player_games = {}
    /\ hands = [p \in TwoPlayers |-> <<>>]
    /\ dealer_hand = [p \in TwoPlayers |-> <<>>]
    /\ current_hand_index = [p \in TwoPlayers |-> 0]
    /\ score2 = [p \in TwoPlayers |-> 0]
    /\ in_game = [p \in TwoPlayers |-> FALSE]
    /\ dealer_value = [p \in TwoPlayers |-> 0]
    /\ dealer_busted = [p \in TwoPlayers |-> FALSE]
    /\ pc = [p \in TwoPlayers |-> "idle"]

\* a command of player p, or a step of the handler it started
TwoCommand(p) ==
    \/ StartGame(p, TwoDrawSet, TwoDealerSet)
    \/ stop_game(p)
    \/ Hit(p, TwoDrawSet, TwoMaxCards)
    \/ Stand(p)
    \/ DoubleDown(p, TwoDrawSet, TwoMaxCards)
    \/ Split(p, TwoDrawSet, TwoMaxCards)
    \/ Surrender(p)
    \/ DealerDraw(p, TwoDealerSet)
    \/ SettleRound(p)

TwoNext == \E p \in TwoPlayers : TwoCommand(p)

TwoSpec == TwoInit /\ [][TwoNext]_vars

\* ----------------------------------------------------- concurrent handlers
\* In ConcSpec the host runs two handlers at once, both for ConcPlayer, and
\* pc[h] is the position of handler h.  No handler of the plugin takes a
\* lock, so the handlers interleave between the calls they make; each call
\* of a PlayerGame method is taken as one step.  Positions:
\*   "idle"        h runs no command
\*   "next_hand"   in next_action, before game.next_hand() (line 422)
\*   "dealer_play" at the head of the while loop of dealer_play (line 194)
\*   "start_game"  after settle_round, at the call of start_game (line 464)
ConcInit ==
    /\ player_games = {}
    /\ hands = [p \in Players |-> <<>>]
    /\ dealer_hand = [p \in Players |-> <<>>]
    /\ current_hand_index = [p \in Players |-> 0]
    /\ score2 = [p \in Players |-> 0]
    /\ in_game = [p \in Players |-> FALSE]
    /\ dealer_value = [p \in Players |-> 0]
    /\ dealer_busted = [p \in Players |-> FALSE]
    /\ pc = [h \in Handlers |-> "idle"]

\* start_game run by handler h up to its call of next_action
conc_start_game(h, p, D, DD) ==
    /\ player_games' = player_games \cup {p}
    /\ IF in_game[p]
       THEN /\ pc' = [pc EXCEPT ![h] = "idle"]
            /\ UNCHANGED gameVars
       ELSE \E c1 \in D, d1 \in DD, c2 \in D, d2 \in DD :
              LET hd == start_new_round(c1, c2) IN
              /\ hands' = [hands EXCEPT ![p] = <<hd>>]
              /\ dealer_hand' = [dealer_hand EXCEPT ![p] = <<d1, d2>>]
              /\ current_hand_index' = [current_hand_index EXCEPT ![p] = 0]
              /\ in_game' = [in_game EXCEPT ![p] = TRUE]
              /\ pc' = [pc EXCEPT ![h] =
                           IF is_blackjack(hd) THEN "next_hand" ELSE "idle"]
              /\ UNCHANGED <<score2, dealer_value, dealer_busted>>

\* !!21 start, handled by h
ConcStartGame(h, p, D, DD) ==
    /\ pc[h] = "idle"
    /\ conc_start_game(h, p, D, DD)

\* the call of start_game at the end of next_action, run by h
ConcAutoStart(h, p, D, DD, maxScore2) ==
    /\ pc[h] = "start_game"
    /\ Abs(score2[p]) < maxScore2
    /\ conc_start_game(h, p, D, DD)

\* !!21 s handled by h, up to the call of next_action: get_current_hand
\* raises IndexError, which process_command catches, when another handler
\* has moved the cursor past the last hand
ConcStand(h, p) ==
    /\ pc[h] = "idle"
    /\ player_games' = player_games \cup {p}
    /\ IF ~in_game[p] THEN UNCHANGED <<gameVars, pc>>
       ELSE IF current_hand_index[p] >= Len(hands[p])
            THEN UNCHANGED <<gameVars, pc>>
       ELSE /\ hands' = [hands EXCEPT ![p] =
                           [@ EXCEPT ![current_hand_index[p] + 1] =
                               stand(get_current_hand(p))]]
            /\ pc' = [pc EXCEPT ![h] = "next_hand"]
            /\ UNCHANGED <<dealer_hand, current_hand_index, score2, in_game,
                           dealer_value, dealer_busted>>

\* !!21 p handled by h
ConcSplit(h, p, D, maxCards) ==
    /\ pc[h] = "idle"
    /\ PlayerCards(hands[p]) + 2 <= maxCards
    /\ player_games' = player_games \cup {p}
    /\ IF ~in_game[p] THEN UNCHANGED <<gameVars, pc>>
       ELSE IF current_hand_index[p] >= Len(hands[p])
            THEN UNCHANGED <<gameVars, pc>>
       ELSE IF is_blackjack(get_current_hand(p))
            THEN UNCHANGED <<gameVars, pc>>
       ELSE IF can_split(hands[p], current_hand_index[p])
            THEN \E n1 \in D, n2 \in D :
                   /\ hands' = [hands EXCEPT ![p] =
                                   split(hands[p], current_hand_index[p], n1, n2)]
                   /\ UNCHANGED <<dealer_hand, current_hand_index, score2,
                                  in_game, dealer_value, dealer_busted, pc>>
       ELSE UNCHANGED <<gameVars, pc>>

\* next_hand and the test of its result in next_action, run by h; when no
\* hand is left, the calculate_dealer_value that opens dealer_play
ConcNextHand(h, p) ==
    /\ pc[h] = "next_hand"
    /\ current_hand_index' =
         [current_hand_index EXCEPT ![p] = current_hand_index[p] + 1]
    /\ IF current_hand_index[p] + 1 < Len(hands[p])
       THEN /\ pc' = [pc EXCEPT ![h] = "idle"]
            /\ UNCHANGED <<dealer_value, dealer_busted>>
       ELSE /\ pc' = [pc EXCEPT ![h] = "dealer_play"]
            /\ dealer_value' = [dealer_value EXCEPT ![p] =
                                   calculate_dealer_value(dealer_hand[p])]
            /\ dealer_busted' = [dealer_busted EXCEPT ![p] =
                                    calculate_dealer_value(dealer_hand[p]) > 21]
    /\ UNCHANGED <<player_games, hands, dealer_hand, score2, in_game>>

\* one pass of the while loop of dealer_play, run by h
ConcDealerDraw(h, p, DD) ==
    /\ pc[h] = "dealer_play"
    /\ dealer_draws(p)
    /\ \E c \in DD :
         LET dh == Append(dealer_hand[p], c) IN
         /\ dealer_hand' = [dealer_hand EXCEPT ![p] = dh]
         /\ dealer_value' =
              [dealer_value EXCEPT ![p] = calculate_dealer_value(dh)]
         /\ dealer_busted' =
              [dealer_busted EXCEPT ![p] = calculate_dealer_value(dh) > 21]
    /\ UNCHANGED <<player_games, hands, current_hand_index, score2, in_game,
                   pc>>

\* the exit of the loop and the call of settle_round, run by h
ConcSettleRound(h, p) ==
    /\ pc[h] = "dealer_play"
    /\ ~dealer_draws(p)
    /\ score2' = [score2 EXCEPT ![p] =
                     @ + settle_round(hands[p], dealer_value[p],
                                      dealer_busted[p])]
    /\ in_game' = [in_game EXCEPT ![p] = FALSE]
    /\ pc' = [pc EXCEPT ![h] = "start_game"]
    /\ UNCHANGED <<player_games, hands, dealer_hand, current_hand_index,
                   dealer_value, dealer_busted>>

ConcNext ==
    \E h \in Handlers :
        \/ ConcStartGame(h, ConcPlayer, ConcDrawSet, ConcDealerSet)
        \/ ConcStand(h, ConcPlayer)
        \/ ConcSplit(h, ConcPlayer, ConcDrawSet, ConcMaxCards)
        \/ ConcNextHand(h, ConcPlayer)
        \/ ConcDealerDraw(h, ConcPlayer, ConcDealerSet)
        \/ ConcSettleRound(h, ConcPlayer)
        \/ ConcAutoStart(h, ConcPlayer, ConcDrawSet, ConcDealerSet,
                         ConcMaxScore2)

ConcSpec == ConcInit /\ [][ConcNext]_vars

\* ---------------------------------------------------------------- claims
\* the 1-based position of the current hand
cur(p) == current_hand_index[p] + 1

\* a step of next_action that settles the round
SettleStep(p) == pc[p] = "dealer_play" /\ pc'[p] = "start_game"

\* a step that deals a round
DealStep(p) == ~in_game[p] /\ in_game'[p]

\* a command step that sets doubled on the current hand
DoubleStep(p) ==
    /\ pc[p] = "idle"
    /\ in_game[p]
    /\ cur(p) <= Len(hands[p])
    /\ cur(p) <= Len(hands'[p])
    /\ hands'[p][cur(p)].doubled
    /\ ~hands[p][cur(p)].doubled

\* a command step that adds a card to the current hand without doubling it
HitStep(p) ==
    /\ pc[p] = "idle"
    /\ in_game[p]
    /\ in_game'[p]
    /\ cur(p) <= Len(hands[p])
    /\ Len(hands'[p]) = Len(hands[p])
    /\ Len(hands'[p][cur(p)].cards) = Len(hands[p][cur(p)].cards) + 1
    /\ hands'[p][cur(p)].doubled = hands[p][cur(p)].doubled

\* a command step that adds a hand
SplitStep(p) ==
    /\ pc[p] = "idle"
    /\ in_game[p]
    /\ in_game'[p]
    /\ Len(hands'[p]) = Len(hands[p]) + 1

\* where next_action leaves the handler when the cursor was idx
Advanced(p) ==
    /\ current_hand_index'[p] = current_hand_index[p] + 1
    /\ pc'[p] = IF current_hand_index[p] + 1 < Len(hands'[p])
                THEN "idle" ELSE "dealer_play"

\* within a round, the hands before the cursor are not touched again
FinishedHandsFrozen(p) ==
    (in_game[p] /\ in_game'[p]) =>
        \A i \in 1..Len(hands[p]) :
            i <= current_hand_index[p] =>
                /\ i <= Len(hands'[p])
                /\ hands'[p][i] = hands[p][i]
                /\ i <= current_hand_index'[p]

\* the settlement rules as the claim lists them, in half points, from the
\* cards of the hand and of the final dealer hand
ClaimHandDelta2(hand, dh) ==
    LET v == calculate_value(hand.cards)
        d == calculate_value(dh)
    IN  IF hand.surrendered THEN -hand.bet
        ELSE IF v > 21 THEN -2 * hand.bet
        ELSE IF Len(hand.cards) >= 5 THEN 2 * hand.bet
        ELSE IF Len(hand.cards) = 2 /\ ~hand.is_split /\ v = 21
             THEN 3 * hand.bet
        ELSE IF d > 21 THEN 2 * hand.bet
        ELSE IF v > d THEN 2 * hand.bet
        ELSE IF v < d THEN -2 * hand.bet
        ELSE 0

RECURSIVE ClaimRoundDelta2(_, _)
ClaimRoundDelta2(hs, dh) ==
    IF hs = <<>> THEN 0
    ELSE ClaimHandDelta2(Head(hs), dh) + ClaimRoundDelta2(Tail(hs), dh)

\* C1: settle_round adds to the score the sum over the hands of the first
\* matching rule: surrendered -0.5 bet, busted -bet, five cards +bet,
\* blackjack +1.5 bet, dealer busted +bet, else the comparison of totals.
C1_SettleRules ==
    [][\A p \in Players :
          SettleStep(p) =>
              score2'[p] - score2[p] =
                  ClaimRoundDelta2(hands[p], dealer_hand[p])]_vars

\* a settled round of two hands, one busted and one surrendered, against a
\* busted dealer: -1 - 0.5
C1_Witness ==
    \E p \in Players :
        /\ pc[p] = "start_game"
        /\ Len(hands[p]) = 2
        /\ \E i \in 1..2 : hands[p][i].busted
        /\ \E i \in 1..2 : hands[p][i].surrendered
        /\ calculate_value(dealer_hand[p]) > 21
        /\ score2[p] = -3

\* C2 as stated: a dealt blackjack settles at +1.5, or at 0 when the
\* dealer's two cards also total 21.
C2_PushOnDealerBlackjack ==
    [][\A p \in Players :
          (SettleStep(p) /\ Len(hands[p]) = 1 /\ is_blackjack(hands[p][1])) =>
              score2'[p] - score2[p] =
                  IF Len(dealer_hand[p]) = 2
                     /\ calculate_value(dealer_hand[p]) = 21
                  THEN 0 ELSE 3]_vars

\* C2 amended: a dealt blackjack is stood by the deal itself, which goes on
\* to the dealer's play without waiting for a command (a blackjack is
\* never the current hand of an idle round), and the round settles at +1.5
\* whatever the dealer holds.
C2_BlackjackAutoSettles ==
    /\ [](\A p \in Players :
            (in_game[p] /\ pc[p] = "idle") =>
                ~is_blackjack(hands[p][cur(p)]))
    /\ [][\A p \in Players :
            /\ (DealStep(p) /\ is_blackjack(hands'[p][1])) =>
                   /\ hands'[p][1].stand
                   /\ current_hand_index'[p] = 1
                   /\ pc'[p] = "dealer_play"
            /\ (SettleStep(p) /\ Len(hands[p]) = 1
                              /\ is_blackjack(hands[p][1])) =>
                   score2'[p] - score2[p] = 3]_vars

\* a blackjack settled at +1.5 against a dealer's two-card 21
C2_Witness ==
    \E p \in Players :
        /\ pc[p] = "start_game"
        /\ Len(hands[p]) = 1
        /\ is_blackjack(hands[p][1])
        /\ Len(dealer_hand[p]) = 2
        /\ calculate_value(dealer_hand[p]) = 21
        /\ score2[p] = 3

\* C3: a double-down succeeds only on a current hand of exactly 2 cards
\* that is not standing, busted, surrendered, doubled or a blackjack.
C3_DoubleOnlyOnTwoCards ==
    [][\A p \in Players :
          DoubleStep(p) =>
              LET h == hands[p][cur(p)] IN
              /\ Len(h.cards) = 2
              /\ ~h.stand
              /\ ~h.busted
              /\ ~h.surrendered
              /\ ~h.doubled
              /\ ~is_blackjack(h)]_vars

\* C4: a double-down on a 2-card hand doubles the bet, sets doubled, adds
\* one card, leaves the hand standing whether it busts or not, and the
\* play advances; the hand is not touched again in the round.
C4_DoubleDown ==
    [][\A p \in Players :
          /\ (DoubleStep(p) /\ Len(hands[p][cur(p)].cards) = 2) =>
                 LET h == hands[p][cur(p)]
                     h2 == hands'[p][cur(p)]
                 IN  /\ h2.bet = 2 * h.bet
                     /\ h2.doubled
                     /\ h2.stand
                     /\ Len(h2.cards) = 3
                     /\ SubSeq(h2.cards, 1, 2) = h.cards
                     /\ h2.cards[3] \in CARDS
                     /\ h2.busted = (calculate_value(h2.cards) > 21)
                     /\ h2.surrendered = h.surrendered
                     /\ h2.is_split = h.is_split
                     /\ Len(hands'[p]) = Len(hands[p])
                     /\ \A i \in 1..Len(hands[p]) :
                            i # cur(p) => hands'[p][i] = hands[p][i]
                     /\ Advanced(p)
          /\ FinishedHandsFrozen(p)
          /\ (in_game[p] /\ in_game'[p]) =>
                 \A i \in 1..Len(hands[p]) :
                     hands[p][i].doubled =>
                         i <= Len(hands'[p]) /\ hands'[p][i] = hands[p][i]]_vars

\* a doubled hand that busted and stands, with the play on the next hand
C4_Witness ==
    \E p \in Players :
        /\ pc[p] = "idle"
        /\ in_game[p]
        /\ current_hand_index[p] = 1
        /\ Len(hands[p]) = 2
        /\ hands[p][1].doubled
        /\ hands[p][1].busted
        /\ hands[p][1].stand
        /\ hands[p][1].bet = 2
        /\ Len(hands[p][1].cards) = 3

\* C5: a split happens only on 2 cards of equal value; it puts the first
\* card plus a new card at the cursor and the second card plus a new card
\* at the end, both split-derived, with the bet of the original hand and
\* no flag set; the cursor stays and the other hands are untouched.
C5_Split ==
    [][\A p \in Players :
          SplitStep(p) =>
              LET h == hands[p][cur(p)]
                  a == hands'[p][cur(p)]
                  b == hands'[p][Len(hands'[p])]
              IN  /\ Len(h.cards) = 2
                  /\ CARD_VALUES[h.cards[1]] = CARD_VALUES[h.cards[2]]
                  /\ Len(a.cards) = 2
                  /\ Len(b.cards) = 2
                  /\ a.cards[1] = h.cards[1]
                  /\ b.cards[1] = h.cards[2]
                  /\ a.cards[2] \in CARDS
                  /\ b.cards[2] \in CARDS
                  /\ a.is_split /\ b.is_split
                  /\ a.bet = h.bet /\ b.bet = h.bet
                  /\ ~a.stand /\ ~a.busted /\ ~a.doubled /\ ~a.surrendered
                  /\ ~b.stand /\ ~b.busted /\ ~b.doubled /\ ~b.surrendered
                  /\ current_hand_index'[p] = current_hand_index[p]
                  /\ pc'[p] = "idle"
                  /\ \A i \in 1..Len(hands[p]) :
                         i # cur(p) => hands'[p][i] = hands[p][i]]_vars

\* the two hands of a split 10 K
C5_Witness ==
    \E p \in Players :
        /\ in_game[p]
        /\ Len(hands[p]) = 2
        /\ hands[p][1].cards[1] = "10"
        /\ hands[p][2].cards[1] = "K"
        /\ hands[p][1].is_split
        /\ hands[p][2].is_split

\* C6: the split command succeeds whenever the current hand has 2 cards of
\* equal value and the round has fewer than 5 hands.
C6_SplitUpToFourTimes ==
    \A p \in Players :
        (/\ pc[p] = "idle"
         /\ in_game[p]
         /\ Len(hands[p]) < 5
         /\ Len(hands[p][cur(p)].cards) = 2
         /\ CARD_VALUES[hands[p][cur(p)].cards[1]] =
                CARD_VALUES[hands[p][cur(p)].cards[2]])
        => can_split(hands[p], current_hand_index[p])

\* C7: a round holds between 1 and 5 hands, that is at most 4 splits have
\* succeeded since it was dealt; a player without a round holds none.
C7_HandCount ==
    \A p \in Players :
        IF in_game[p] \/ pc[p] # "idle"
        THEN Len(hands[p]) >= 1 /\ Len(hands[p]) <= 5
                                /\ Len(hands[p]) - 1 <= 4
        ELSE hands[p] = <<>>

\* four hands and a pair at the cursor, which the code does not split
C7_Witness ==
    \E p \in Players :
        /\ pc[p] = "idle"
        /\ in_game[p]
        /\ Len(hands[p]) = 4
        /\ CARD_VALUES[hands[p][cur(p)].cards[1]] =
               CARD_VALUES[hands[p][cur(p)].cards[2]]

\* what C8 says of the hand before and of the card added
HitAccepted(p) ==
    LET h == hands[p][cur(p)]
        h2 == hands'[p][cur(p)]
    IN  /\ ~h.stand /\ ~h.busted /\ ~h.surrendered /\ ~is_blackjack(h)
        /\ SubSeq(h2.cards, 1, Len(h.cards)) = h.cards
        /\ h2.cards[Len(h2.cards)] \in CARDS
        /\ \A i \in 1..Len(hands[p]) :
               i # cur(p) => hands'[p][i] = hands[p][i]

\* C8 as stated: after a hit that busts the hand or brings it to 5 cards
\* the hand's standing flag is true.
C8_HitBustStands ==
    [][\A p \in Players :
          HitStep(p) =>
              LET h2 == hands'[p][cur(p)] IN
              /\ HitAccepted(p)
              /\ (h2.busted \/ Len(h2.cards) >= 5) => h2.stand]_vars

\* C8 amended: a hit is accepted only on a hand that is not standing,
\* busted, surrendered or a blackjack and adds one card; a card that busts
\* the hand sets busted and leaves standing false, a fifth card that does
\* not bust sets standing; in both cases the play advances and the hand is
\* not touched again, otherwise the hand stays the current one.
C8_Hit ==
    [][\A p \in Players :
          /\ HitStep(p) =>
                 LET h == hands[p][cur(p)]
                     h2 == hands'[p][cur(p)]
                 IN  /\ HitAccepted(p)
                     /\ h2.busted = (calculate_value(h2.cards) > 21)
                     /\ h2.busted => ~h2.stand
                     /\ (Len(h2.cards) >= 5 /\ ~h2.busted) => h2.stand
                     /\ (Len(h2.cards) < 5 /\ ~h2.busted) => ~h2.stand
                     /\ h2.bet = h.bet
                     /\ IF h2.busted \/ h2.stand
                        THEN Advanced(p)
                        ELSE /\ current_hand_index'[p] = current_hand_index[p]
                             /\ pc'[p] = "idle"
          /\ FinishedHandsFrozen(p)]_vars

\* a hand busted by a hit, not standing, with the dealer playing
C8_Witness ==
    \E p \in Players :
        /\ pc[p] = "dealer_play"
        /\ Len(hands[p]) = 1
        /\ hands[p][1].busted
        /\ ~hands[p][1].stand
        /\ ~hands[p][1].doubled

\* C9: the dealer's play ends; the dealer draws one card at a time and
\* only below 17; at settlement the total is between 17 and 26 and the
\* cached dealer_value and dealer_busted are those of the final hand.
C9_DealerPlay ==
    /\ \A p \in Players : (pc[p] = "dealer_play") ~> (pc[p] = "start_game")
    /\ [][\A p \in Players :
            /\ (dealer_hand'[p] # dealer_hand[p] /\ pc[p] = "dealer_play") =>
                   /\ calculate_value(dealer_hand[p]) < 17
                   /\ Len(dealer_hand'[p]) = Len(dealer_hand[p]) + 1
                   /\ SubSeq(dealer_hand'[p], 1, Len(dealer_hand[p])) =
                          dealer_hand[p]
            /\ SettleStep(p) =>
                   /\ calculate_value(dealer_hand[p]) >= 17
                   /\ calculate_value(dealer_hand[p]) <= 26
                   /\ dealer_value[p] = calculate_value(dealer_hand[p])
                   /\ dealer_busted[p] = (calculate_value(dealer_hand[p]) > 21)
                   /\ dealer_hand'[p] = dealer_hand[p]]_vars

\* a settled round in which the dealer stood on A 6
C9_Witness ==
    \E p \in Players :
        /\ pc[p] = "start_game"
        /\ dealer_hand[p] = <<"A", "6">>
        /\ dealer_value[p] = 17

\* C10: a start command in a round in progress changes nothing of the
\* player's round or score; while a round stays in progress between two
\* commands no dealer card is dealt and the score does not move.
C10_StartInGameRejected ==
    [][\A p \in Players :
          /\ (in_game[p] /\ StartGame(p, DrawSet, DrawSet)) =>
                 UNCHANGED <<hands, dealer_hand, current_hand_index, score2,
                             in_game, dealer_value, dealer_busted, pc,
                             player_games>>
          /\ (pc[p] = "idle" /\ in_game[p] /\ in_game'[p]) =>
                 /\ dealer_hand'[p] = dealer_hand[p]
                 /\ score2'[p] = score2[p]
                 /\ Len(hands'[p]) >= Len(hands[p])
                 /\ \A i \in 1..Len(hands[p]) :
                        Len(hands'[p][i].cards) >= Len(hands[p][i].cards)]_vars

\* a round in progress after a hit, with a score from earlier rounds
C10_Witness ==
    \E p \in Players :
        /\ pc[p] = "idle"
        /\ in_game[p]
        /\ Len(hands[p][1].cards) = 3
        /\ score2[p] # 0

\* C11 as stated: a stop in a round in progress removes the player's entry
\* and its score, so that the next start begins at 0; a player without a
\* round in progress, whatever commands that player sent before, is told
\* "no active game" by stop, not a final score.
C11_StopWithoutRound ==
    /\ [](\A p \in Players :
            (pc[p] = "idle" /\ ~in_game[p]) =>
                stop_reports(p) = "no_active_game")
    /\ [][\A p \in Players :
            /\ (in_game[p] /\ stop_game(p)) =>
                   /\ p \notin player_games'
                   /\ score2'[p] = 0
                   /\ ~in_game'[p]
            /\ (DealStep(p) /\ pc[p] = "idle") => score2'[p] = 0]_vars

\* a step of stop_game that removes the entry of p
StopStep(p) == p \in player_games /\ p \notin player_games'

\* C12: the score persists across rounds: a step that deals a round and
\* every step that neither settles a round nor removes the player's entry
\* leaves the score as it is, and a settlement adds the delta of the round
\* settled, so the score is the sum of the deltas since the start.
C12_ScorePersists ==
    [][\A p \in Players :
          /\ DealStep(p) => score2'[p] = score2[p]
          /\ SettleStep(p) =>
                 score2'[p] = score2[p]
                                + ClaimRoundDelta2(hands[p], dealer_hand[p])
          /\ (~SettleStep(p) /\ ~StopStep(p)) => score2'[p] = score2[p]]_vars

\* two rounds settled since the start: a surrender (-0.5), then a win (+1)
C12_Witness ==
    \E p \in Players :
        /\ pc[p] = "start_game"
        /\ score2[p] = 1
        /\ ~hands[p][1].surrendered
        /\ ~hands[p][1].doubled
        /\ ~is_blackjack(hands[p][1])

\* the registry entry of q
Entry(q) ==
    <<q \in player_games, hands[q], dealer_hand[q], current_hand_index[q],
      in_game[q], score2[q], dealer_value[q], dealer_busted[q]>>

\* C13: a command of one player, and every step of the handler it starts,
\* leaves the registry entry of every other player as it is (hands, dealer
\* hand, cursor, in-game flag, score), however the commands interleave.
C13_Isolation ==
    [][\A p \in TwoPlayers :
          TwoCommand(p) =>
              \A q \in TwoPlayers \ {p} : Entry(q)' = Entry(q)]_vars

\* one player acts on two split hands while the other's round is settled
C13_Witness ==
    \E p \in TwoPlayers, q \in TwoPlayers :
        /\ p # q
        /\ pc[p] = "idle"
        /\ in_game[p]
        /\ Len(hands[p]) = 2
        /\ pc[q] = "start_game"
        /\ score2[q] # 0

\* C14 as stated: two commands of one player that arrive together act as
\* if run one after the other: the cursor never passes a hand that is still
\* open (two stands advance it over two hands, not twice over one), it
\* never goes beyond the end of the hands, and a round is settled once.
C14_Serialized ==
    /\ [](\A p \in Players :
            /\ current_hand_index[p] <= Len(hands[p])
            /\ \A i \in 1..Len(hands[p]) :
                   i <= current_hand_index[p] =>
                       (hands[p][i].stand \/ hands[p][i].busted))
    /\ [][\A p \in Players :
            (\E h \in DOMAIN pc :
                 pc[h] = "dealer_play" /\ pc'[h] = "start_game") =>
                (in_game[p] /\ ~in_game'[p])]_vars

\* C15: in a round in progress, a double-down, split or surrender that
\* the rules refuse, and a command that is not known, leave the hands
\* (cards, bets, flags), the cursor, the dealer hand, the score and in_game
\* as they are: no card is drawn and the round stays in progress.
C15_RejectionNoChange ==
    [][\A p \in Players :
          (pc[p] = "idle" /\ in_game[p]) =>
              /\ (/\ ~can_double_down(get_current_hand(p))
                  /\ DoubleDown(p, RoundDrawSet, RoundMaxCards))
                     => UNCHANGED <<gameVars, pc>>
              /\ (/\ ~can_split(hands[p], current_hand_index[p])
                  /\ Split(p, RoundDrawSet, RoundMaxCards))
                     => UNCHANGED <<gameVars, pc>>
              /\ (/\ ~can_surrender(get_current_hand(p))
                  /\ Surrender(p))
                     => UNCHANGED <<gameVars, pc>>
              /\ Unknown(p) => UNCHANGED <<gameVars, pc>>]_vars

\* a round in which both a split and a surrender are refused: the current
\* hand, the second of two, holds three cards
C15_Witness ==
    \E p \in Players :
        /\ pc[p] = "idle"
        /\ in_game[p]
        /\ current_hand_index[p] = 1
        /\ ~can_split(hands[p], current_hand_index[p])
        /\ ~can_surrender(get_current_hand(p))
        /\ Len(get_current_hand(p).cards) = 3

\* C16 as stated: in every state, also while the player acts in a round
\* dealt after a settled one, dealer_value is the ace-aware total of the
\* dealer hand and dealer_busted tells whether that total exceeds 21.
C16_DealerCacheCurrent ==
    \A p \in Players :
        /\ dealer_value[p] = calculate_value(dealer_hand[p])
        /\ dealer_busted[p] = (calculate_value(dealer_hand[p]) > 21)

\* C17: within a round the cursor never decreases and a step moves it by
\* at most one; the dealer plays and the round is settled only with the
\* cursor past the last hand, and then every hand is standing, busted or
\* surrendered; while a command is awaited the cursor is on a hand.
C17_CursorForward ==
    /\ [][\A p \in Players :
            (in_game[p] /\ in_game'[p]) =>
                \/ current_hand_index'[p] = current_hand_index[p]
                \/ current_hand_index'[p] = current_hand_index[p] + 1]_vars
    /\ [](\A p \in Players :
            /\ (pc[p] = "idle" /\ in_game[p]) =>
                   current_hand_index[p] < Len(hands[p])
            /\ pc[p] \in {"dealer_play", "start_game"} =>
                   /\ current_hand_index[p] = Len(hands[p])
                   /\ \A i \in 1..Len(hands[p]) :
                          \/ hands[p][i].stand
                          \/ hands[p][i].busted
                          \/ hands[p][i].surrendered)

\* the dealer plays after the cursor went over two hands, the first busted
\* by a hit and the second stood by the player
C17_Witness ==
    \E p \in Players :
        /\ pc[p] = "dealer_play"
        /\ Len(hands[p]) = 2
        /\ current_hand_index[p] = 2
        /\ hands[p][1].busted
        /\ hands[p][2].stand
        /\ ~hands[p][2].surrendered
        /\ ~hands[p][2].doubled

\* C18: from a player's start to that player's stop, a round is in
\* progress whenever a command may arrive: the handler that settles a round
\* goes on to start_game, whose step deals the next round, before it ends.
C18_RoundAlwaysInProgress ==
    /\ [](\A p \in Players :
            (pc[p] = "idle" /\ hands[p] # <<>>) => in_game[p])
    /\ [][\A p \in Players :
            /\ SettleStep(p) => (~in_game'[p] /\ pc'[p] # "idle")
            /\ pc[p] = "start_game" =>
                   /\ DealStep(p)
                   /\ Len(hands'[p]) = 1
                   /\ Len(hands'[p][1].cards) = 2
                   /\ Len(dealer_hand'[p]) = 2]_vars

\* the command that surrendered the first round has dealt the second
C18_Witness ==
    \E p \in Players :
        /\ pc[p] = "idle"
        /\ in_game[p]
        /\ score2[p] = -1
        /\ current_hand_index[p] = 0
        /\ Len(hands[p]) = 1
        /\ Len(hands[p][1].cards) = 2
        /\ ~hands[p][1].stand

\* C19: when a command may arrive in a round in progress, the cursor is on
\* an existing hand that is not standing, busted, surrendered or a
\* blackjack; the hands after it hold two cards and no flag; the hands
\* before it are standing or busted.
C19_AwaitingHand ==
    \A p \in Players :
        (pc[p] = "idle" /\ in_game[p]) =>
            /\ 0 <= current_hand_index[p]
            /\ current_hand_index[p] < Len(hands[p])
            /\ \A i \in 1..Len(hands[p]) :
                   LET h == hands[p][i] IN
                   /\ i = cur(p) =>
                          /\ ~h.stand
                          /\ ~h.busted
                          /\ ~h.surrendered
                          /\ ~(/\ Len(h.cards) = 2
                               /\ ~h.is_split
                               /\ calculate_value(h.cards) = 21)
                   /\ i > cur(p) =>
                          /\ Len(h.cards) = 2
                          /\ ~h.stand
                          /\ ~h.busted
                          /\ ~h.doubled
                          /\ ~h.surrendered
                   /\ i < cur(p) => (h.stand \/ h.busted)

\* three hands after two splits: the first surrendered, the cursor on the
\* second, the third still untouched
C19_Witness ==
    \E p \in Players :
        /\ pc[p] = "idle"
        /\ in_game[p]
        /\ Len(hands[p]) = 3
        /\ current_hand_index[p] = 1
        /\ hands[p][1].surrendered

====
